---- MODULE Spec2Model ----
(***************************************************************************)
(* Model of the motion-detection / viewport-tracking core:                 *)
(*   viewport_tracker.py  calculate_region_of_interest, track_viewport     *)
(*   motion_detector.py   detect_motion                                    *)
(*                                                                         *)
(* Python floats are IEEE-754 doubles.  The smoothing expression           *)
(*   int(prev * (1 - smoothing_factor) + roi * smoothing_factor)           *)
(* is modelled with correctly rounded double arithmetic (see "Doubles").   *)
(***************************************************************************)
EXTENDS Integers, Sequences, FiniteSets, TLC

VARIABLES
    pc,                 \* position of the modelled call
    frame_shape,        \* <<height, width>>: frames[k].shape[:2], the same for every k
    nframes,            \* len(frames)
    nmotion,            \* len(motion_results)
    viewport_size,      \* <<vp_width, vp_height>>
    smoothing_factor,   \* in tenths: 3 is the double 0.3, 10 is 1.0
    target,             \* step-response scenario: the box shown from frame 1 on
    i,                  \* loop index of track_viewport
    roi,                \* <<roi_x, roi_y>> of the last iteration
    smooth,             \* <<smooth_x, smooth_y>> of the last iteration, before the clamp
    prev,               \* <<prev_x, prev_y>>
    viewport_positions, \* the output list of track_viewport
    motion_boxes,       \* argument of calculate_region_of_interest / result of detect_motion
    roi_ret,            \* value returned by calculate_region_of_interest
    frame_idx,          \* argument of detect_motion
    min_area,           \* argument of detect_motion
    frames_read         \* indices of frames that detect_motion has read

vars == <<pc, frame_shape, nframes, nmotion, viewport_size, smoothing_factor,
          target, i, roi, smooth, prev, viewport_positions, motion_boxes,
          roi_ret, frame_idx, min_area, frames_read>>

(***************************************************************************)
(* Bounds                                                                  *)
(***************************************************************************)
MaxWidth == 4
MaxHeight == 2
MaxFrames == 3
MaxRoiSide == 2
MaxBoxes == 2
MaxStepWidth == 9
MaxStepHeight == 7
MaxStepViewport == 3
MaxDetectFrames == 3
MaxContours == 2
MaxContourArea == 2

\* number of frames that follow frame 0 in the step-response scenario
StepFrames == 50

(***************************************************************************)
(* Integer helpers (Python builtins)                                       *)
(***************************************************************************)
Abs(n) == IF n < 0 THEN 0 - n ELSE n

Max(a, b) == IF a >= b THEN a ELSE b

Min(a, b) == IF a <= b THEN a ELSE b

RECURSIVE Pow2(_)
Pow2(n) == IF n = 0 THEN 1 ELSE 2 * Pow2(n - 1)

\* int(n / d) for integers n and d > 0: the true quotient of two small
\* integers is either an integer or at least 1/d away from one, so the
\* correctly rounded double quotient truncates to the same integer.
IntOfQuotient(n, d) == IF n >= 0 THEN n \div d ELSE 0 - ((0 - n) \div d)

(***************************************************************************)
(* Doubles.  A double is written <<T, D>> and stands for the real number   *)
(*     T/10 + D * 2^-54 / 10                                               *)
(* (T tenths plus a deviation of D tenths of 2^-54).  Every double of      *)
(* magnitude >= 0.25 is a multiple of 2^-54, so sums and integer multiples *)
(* of such doubles are exact in this form; FRound rounds the exact value   *)
(* to 53 significant bits, ties to even, as the hardware does.             *)
(***************************************************************************)
MaxUlpExp == 12

\* value <<T, D>> (T > 0) is at least 2^(j-2)
FGe(T, D, j) == 4 * T > 10 * Pow2(j) \/ (4 * T = 10 * Pow2(j) /\ D >= 0)

\* j with ulp(value) = 2^j * 2^-54
FUlpExp(T, D) == CHOOSE j \in 0..MaxUlpExp : FGe(T, D, j) /\ ~FGe(T, D, j + 1)

FRoundMag(T, D) ==
    LET j   == FUlpExp(T, D)
        Q   == 10 * Pow2(j)
        c2  == Pow2((52 - j) % 4) % 5          \* 2^(52-j) mod 5
        R2  == (T * Pow2(j + 2) * c2 + D) % (2 * Q)
        rem == R2 % Q
        odd == R2 >= Q
        up  == 2 * rem > Q \/ (2 * rem = Q /\ odd)
    IN  IF rem = 0 THEN <<T, D>>
        ELSE IF up THEN <<T, D + (Q - rem)>>
        ELSE <<T, D - rem>>

FRound(T, D) ==
    IF T = 0 \/ ~FGe(Abs(T), 0, 0) THEN <<T, D>>
    ELSE IF T > 0 THEN FRoundMag(T, D)
    ELSE LET m == FRoundMag(0 - T, 0 - D) IN <<0 - m[1], 0 - m[2]>>

\* the double nearest to tenths/10 (a literal such as 0.3)
FLit(tenths) == FRound(tenths, 0)

\* n * x for an int n and a double x
FMulInt(n, x) == FRound(n * x[1], n * x[2])

FAdd(x, y) == FRound(x[1] + y[1], x[2] + y[2])

\* 1 - x
FOneMinus(x) == FRound(10 - x[1], 0 - x[2])

FIntPos(T, D) == IF T % 10 = 0 /\ D < 0 THEN (T \div 10) - 1 ELSE T \div 10

\* int(x): truncation toward zero
FInt(x) ==
    IF x[1] = 0 THEN 0
    ELSE IF x[1] > 0 THEN FIntPos(x[1], x[2])
    ELSE 0 - FIntPos(0 - x[1], 0 - x[2])

(***************************************************************************)
(* viewport_tracker.py : calculate_region_of_interest                      *)
(***************************************************************************)
\* weight = w * h
BoxArea(box) == box[3] * box[4]

BoxCenterXNotHalved(box) == box[1] + box[3]

\* center_x = x + w // 2
BoxCenterX(box) == box[1] + (box[3] \div 2)

\* center_y = y + h // 2
BoxCenterY(box) == box[2] + (box[4] \div 2)

RECURSIVE TotalWeight(_)
TotalWeight(boxes) ==
    IF boxes = <<>> THEN 0 ELSE BoxArea(Head(boxes)) + TotalWeight(Tail(boxes))

RECURSIVE WeightedX(_)
WeightedX(boxes) ==
    IF boxes = <<>> THEN 0
    ELSE BoxCenterX(Head(boxes)) * BoxArea(Head(boxes)) + WeightedX(Tail(boxes))

RECURSIVE WeightedY(_)
WeightedY(boxes) ==
    IF boxes = <<>> THEN 0
    ELSE BoxCenterY(Head(boxes)) * BoxArea(Head(boxes)) + WeightedY(Tail(boxes))

RECURSIVE LastLargestFrom(_, _)
LastLargestFrom(boxes, best) ==
    IF boxes = <<>> THEN best
    ELSE LastLargestFrom(Tail(boxes),
            IF BoxArea(Head(boxes)) >= BoxArea(best) THEN Head(boxes) ELSE best)

RECURSIVE LargestFrom(_, _)
LargestFrom(boxes, best) ==
    IF boxes = <<>> THEN best
    ELSE LargestFrom(Tail(boxes),
            IF BoxArea(Head(boxes)) > BoxArea(best) THEN Head(boxes) ELSE best)

LargestBoxLast(boxes) == LastLargestFrom(Tail(boxes), Head(boxes))

\* max(motion_boxes, key=lambda box: box[2] * box[3]): an element replaces
\* the running maximum only when its key is strictly greater
LargestBox(boxes) == LargestFrom(Tail(boxes), Head(boxes))

FrameCenter(shape) == <<shape[2] \div 2, shape[1] \div 2, 0, 0>>

AverageOf(weighted, total) == IntOfQuotient(weighted, total)

calculate_region_of_interest(boxes, shape) ==
    IF boxes = <<>> THEN FrameCenter(shape)
    ELSE IF TotalWeight(boxes) > 0
         THEN <<AverageOf(WeightedX(boxes), TotalWeight(boxes)),
                AverageOf(WeightedY(boxes), TotalWeight(boxes)),
                LargestBox(boxes)[3], LargestBox(boxes)[4]>>
    ELSE FrameCenter(shape)

(***************************************************************************)
(* viewport_tracker.py : track_viewport                                    *)
(***************************************************************************)
None == <<>>

Height == frame_shape[1]

Width == frame_shape[2]

SmoothingFactors == {3, 5, 10}

\* largest coordinate that any specification below feeds to the smoothing
CoordLimit == MaxWidth + MaxHeight + MaxStepWidth + MaxStepHeight

\* int(prev * (1 - smoothing_factor) + roi * smoothing_factor)
SmoothExpr(p, r, a) ==
    FInt(FAdd(FMulInt(p, FOneMinus(FLit(a))), FMulInt(r, FLit(a))))

\* SmoothExpr evaluated once for every argument in range
SmoothMemo ==
    [a \in SmoothingFactors |->
        [p \in 0..CoordLimit |->
            [r \in (0 - 1)..CoordLimit |-> SmoothExpr(p, r, a)] @@ <<>>] @@ <<>>] @@ <<>>

SmoothAxisSwapped(p, r, a) == SmoothExpr(r, p, a)

SmoothAxis(p, r, a) == SmoothMemo[a][p][r]

\* max(lo, min(hi, v))
ClampAxis(lo, hi, v) == Max(lo, Min(hi, v))

\* min_x, min_y
ClampLow(vp) == vp \div 2

\* max_x, max_y
ClampHigh(extent, vp) == extent - (vp \div 2)

UpdatePrevUnclamped(clamped, unclamped) == unclamped

\* prev_x, prev_y = smooth_x, smooth_y  (after the clamp has overwritten them)
UpdatePrev(clamped, unclamped) == clamped

LoopHasNextShort(idx, n) == idx < n - 1

\* for i, motion_boxes in enumerate(motion_results): another element is left
LoopHasNext(idx, n) == idx < n

\* the call up to the loop, frames empty: return []
TrackCallEmpty ==
    /\ pc = "track_call"
    /\ nframes = 0
    /\ pc' = "track_returned"
    /\ viewport_positions' = <<>>
    /\ UNCHANGED <<frame_shape, nframes, nmotion, viewport_size, smoothing_factor,
                   target, i, roi, smooth, prev, motion_boxes, roi_ret,
                   frame_idx, min_area, frames_read>>

\* the call up to the loop, frames not empty
TrackCallInit ==
    /\ pc = "track_call"
    /\ nframes > 0
    /\ pc' = "track_loop"
    /\ viewport_positions' = <<>>
    /\ prev' = <<Width \div 2, Height \div 2>>
    /\ i' = 0
    /\ UNCHANGED <<frame_shape, nframes, nmotion, viewport_size, smoothing_factor,
                   target, roi, smooth, motion_boxes, roi_ret,
                   frame_idx, min_area, frames_read>>

\* one iteration of the loop on the boxes of motion_results[i]
TrackIteration(boxes) ==
    LET r  == calculate_region_of_interest(boxes, frame_shape)
        sx == IF i = 0 THEN r[1] ELSE SmoothAxis(prev[1], r[1], smoothing_factor)
        sy == IF i = 0 THEN r[2] ELSE SmoothAxis(prev[2], r[2], smoothing_factor)
        cx == ClampAxis(ClampLow(viewport_size[1]),
                        ClampHigh(Width, viewport_size[1]), sx)
        cy == ClampAxis(ClampLow(viewport_size[2]),
                        ClampHigh(Height, viewport_size[2]), sy)
    IN  /\ pc = "track_loop"
        /\ LoopHasNext(i, nmotion)
        /\ i < nframes
        /\ roi' = <<r[1], r[2]>>
        /\ smooth' = <<sx, sy>>
        /\ viewport_positions' = Append(viewport_positions, <<cx, cy>>)
        /\ prev' = UpdatePrev(<<cx, cy>>, <<sx, sy>>)
        /\ i' = i + 1
        /\ UNCHANGED <<pc, frame_shape, nframes, nmotion, viewport_size,
                       smoothing_factor, target, motion_boxes, roi_ret,
                       frame_idx, min_area, frames_read>>

\* frames[i] with i >= len(frames): IndexError
TrackIndexError ==
    /\ pc = "track_loop"
    /\ LoopHasNext(i, nmotion)
    /\ i >= nframes
    /\ pc' = "track_raised"
    /\ UNCHANGED <<frame_shape, nframes, nmotion, viewport_size, smoothing_factor,
                   target, i, roi, smooth, prev, viewport_positions, motion_boxes,
                   roi_ret, frame_idx, min_area, frames_read>>

\* return viewport_positions
TrackReturn ==
    /\ pc = "track_loop"
    /\ ~LoopHasNext(i, nmotion)
    /\ pc' = "track_returned"
    /\ UNCHANGED <<frame_shape, nframes, nmotion, viewport_size, smoothing_factor,
                   target, i, roi, smooth, prev, viewport_positions, motion_boxes,
                   roi_ret, frame_idx, min_area, frames_read>>

(***************************************************************************)
(* track_viewport on arbitrary motion results                              *)
(***************************************************************************)
\* one-pixel boxes along the top row and down one column, in and around the
\* frame, and one box of area 0
TrackBoxes ==
    ({<<x, 0, 1, 1>> : x \in (0 - 1)..(MaxWidth + 1)}
        \cup {<<1, y, 1, 1>> : y \in 0..MaxHeight}) \cup {<<0, 0, 0, 1>>}

TrackBoxLists == {<<>>} \cup {<<b>> : b \in TrackBoxes}

Init ==
    /\ pc = "track_call"
    /\ frame_shape \in {MaxHeight} \X {MaxWidth - 1, MaxWidth}
    /\ nframes \in 0..MaxFrames
    /\ nmotion \in 0..MaxFrames
    /\ Abs(nframes - nmotion) <= 1
    /\ viewport_size \in (1..(MaxWidth + 1)) \X (1..(MaxHeight + 1))
    /\ viewport_size[1] <= frame_shape[2] + 1
    /\ viewport_size[2] <= frame_shape[1] + 1
    /\ smoothing_factor \in SmoothingFactors
    /\ target = None
    /\ i = 0
    /\ roi = None
    /\ smooth = None
    /\ prev = None
    /\ viewport_positions = <<>>
    /\ motion_boxes = <<>>
    /\ roi_ret = None
    /\ frame_idx = 0
    /\ min_area = 0
    /\ frames_read = {}

TrackStep == \E boxes \in TrackBoxLists : TrackIteration(boxes)

Next ==
    \/ TrackCallEmpty
    \/ TrackCallInit
    \/ TrackStep
    \/ TrackIndexError
    \/ TrackReturn

Spec == Init /\ [][Next]_vars

(***************************************************************************)
(* track_viewport in the step-response scenario: no motion in frame 0,     *)
(* then the same one-pixel box in each of the StepFrames frames after it.  *)
(***************************************************************************)
ScenarioBoxes(idx) == IF idx = 0 THEN <<>> ELSE <<target>>

InitStepResponse ==
    /\ pc = "track_call"
    /\ frame_shape \in {MaxStepHeight - 1, MaxStepHeight} \X {MaxStepWidth - 1, MaxStepWidth}
    /\ nframes = StepFrames + 1
    /\ nmotion = StepFrames + 1
    /\ viewport_size \in (1..MaxStepViewport) \X (1..MaxStepViewport)
    /\ smoothing_factor = 3
    /\ target \in (0..MaxStepWidth) \X (0..MaxStepHeight) \X {1} \X {1}
    /\ target[1] >= ClampLow(viewport_size[1])
    /\ target[1] <= ClampHigh(frame_shape[2], viewport_size[1])
    /\ target[2] >= ClampLow(viewport_size[2])
    /\ target[2] <= ClampHigh(frame_shape[1], viewport_size[2])
    /\ i = 0
    /\ roi = None
    /\ smooth = None
    /\ prev = None
    /\ viewport_positions = <<>>
    /\ motion_boxes = <<>>
    /\ roi_ret = None
    /\ frame_idx = 0
    /\ min_area = 0
    /\ frames_read = {}

ScenarioStep == TrackIteration(ScenarioBoxes(i))

NextStepResponse ==
    \/ TrackCallInit
    \/ ScenarioStep
    \/ TrackReturn

SpecStepResponse == InitStepResponse /\ [][NextStepResponse]_vars

(***************************************************************************)
(* calculate_region_of_interest called on its own                          *)
(***************************************************************************)
\* top-left corners of the boxes
RoiCorners == {<<0 - 1, 0>>, <<0, 1>>, <<2, 0>>}

RoiBoxes == {<<c[1], c[2], w, h>> : c \in RoiCorners, w \in 0..MaxRoiSide, h \in 0..MaxRoiSide}

RECURSIVE ListsUpTo(_, _)
ListsUpTo(S, n) ==
    IF n = 0 THEN {<<>>}
    ELSE LET shorter == ListsUpTo(S, n - 1)
         IN  shorter \cup {Append(l, b) : l \in {q \in shorter : Len(q) = n - 1}, b \in S}

InitRoi ==
    /\ pc = "roi_call"
    /\ frame_shape \in {MaxHeight} \X {MaxWidth - 1, MaxWidth}
    /\ motion_boxes \in ListsUpTo(RoiBoxes, MaxBoxes)
    /\ nframes = 0
    /\ nmotion = 0
    /\ viewport_size = None
    /\ smoothing_factor = 3
    /\ target = None
    /\ i = 0
    /\ roi = None
    /\ smooth = None
    /\ prev = None
    /\ viewport_positions = <<>>
    /\ roi_ret = None
    /\ frame_idx = 0
    /\ min_area = 0
    /\ frames_read = {}

RoiCall ==
    /\ pc = "roi_call"
    /\ roi_ret' = calculate_region_of_interest(motion_boxes, frame_shape)
    /\ pc' = "roi_returned"
    /\ UNCHANGED <<frame_shape, nframes, nmotion, viewport_size, smoothing_factor,
                   target, i, roi, smooth, prev, viewport_positions, motion_boxes,
                   frame_idx, min_area, frames_read>>

NextRoi == RoiCall

SpecRoi == InitRoi /\ [][NextRoi]_vars

(***************************************************************************)
(* motion_detector.py : detect_motion                                      *)
(* The OpenCV pipeline (grayscale, blur, absdiff, threshold, dilate,       *)
(* findContours) is a library computation over the two frames; it is       *)
(* modelled by the list of contours it yields, each <<area, boundingRect>>.*)
(***************************************************************************)
IndexOutOfRangeFromZero(idx, n) == idx < 0 \/ idx >= n

\* frame_idx < 1 or frame_idx >= len(frames)
IndexOutOfRange(idx, n) == idx < 1 \/ idx >= n

\* frames[k] of a list of n frames raises no IndexError
ListIndexValid(k, n) == k < n /\ k + n >= 0

\* frames[k] of a list of n frames: the element read (a negative k counts from the end)
ListIndex(k, n) == IF k >= 0 THEN k ELSE k + n

\* the loop over contours: keep the boundingRect of a contour with area > min_area
RECURSIVE FilterContours(_, _)
FilterContours(contours, minArea) ==
    IF contours = <<>> THEN <<>>
    ELSE IF Head(contours)[1] > minArea
         THEN <<Head(contours)[2]>> \o FilterContours(Tail(contours), minArea)
         ELSE FilterContours(Tail(contours), minArea)

ContourBoxes == {<<0, 0, 1, 1>>, <<1, 0, 2, 1>>, <<2, 1, 1, 2>>}

Contours == (0..MaxContourArea) \X ContourBoxes

InitDetect ==
    /\ pc = "detect_call"
    /\ nframes \in 0..MaxDetectFrames
    /\ frame_idx \in (0 - 2)..(MaxDetectFrames + 1)
    /\ min_area \in {0, 1}
    /\ frame_shape = <<MaxHeight, MaxWidth>>
    /\ motion_boxes = <<>>
    /\ frames_read = {}
    /\ nmotion = 0
    /\ viewport_size = None
    /\ smoothing_factor = 3
    /\ target = None
    /\ i = 0
    /\ roi = None
    /\ smooth = None
    /\ prev = None
    /\ viewport_positions = <<>>
    /\ roi_ret = None

\* the guard holds: return []
DetectOutOfRange ==
    /\ pc = "detect_call"
    /\ IndexOutOfRange(frame_idx, nframes)
    /\ motion_boxes' = <<>>
    /\ pc' = "detect_returned"
    /\ UNCHANGED <<frame_shape, nframes, nmotion, viewport_size, smoothing_factor,
                   target, i, roi, smooth, prev, viewport_positions, roi_ret,
                   frame_idx, min_area, frames_read>>

\* the guard fails: read frames[frame_idx] and frames[frame_idx - 1], filter the contours
DetectInRange ==
    /\ pc = "detect_call"
    /\ ~IndexOutOfRange(frame_idx, nframes)
    /\ LET cur == ListIndex(frame_idx, nframes)
           prv == ListIndex(frame_idx - 1, nframes)
       IN  IF ~ListIndexValid(frame_idx, nframes)
           THEN /\ pc' = "detect_raised"
                /\ UNCHANGED <<motion_boxes, frames_read>>
           ELSE IF ~ListIndexValid(frame_idx - 1, nframes)
           THEN /\ pc' = "detect_raised"
                /\ frames_read' = {cur}
                /\ UNCHANGED motion_boxes
           ELSE /\ pc' = "detect_returned"
                /\ frames_read' = {cur, prv}
                /\ \E contours \in ListsUpTo(Contours, MaxContours) :
                       motion_boxes' = FilterContours(contours, min_area)
    /\ UNCHANGED <<frame_shape, nframes, nmotion, viewport_size, smoothing_factor,
                   target, i, roi, smooth, prev, viewport_positions, roi_ret,
                   frame_idx, min_area>>

NextDetect ==
    \/ DetectOutOfRange
    \/ DetectInRange

SpecDetect == InitDetect /\ [][NextDetect]_vars

(***************************************************************************)
(* Properties                                                              *)
(***************************************************************************)
VpWidth == viewport_size[1]

VpHeight == viewport_size[2]

Positions == Len(viewport_positions)

LastPosition == viewport_positions[Positions]

ViewportFits == VpWidth <= Width /\ VpHeight <= Height

\* C1: every position returned for a viewport that fits the frame satisfies
\* vp_w/2 <= x <= width - vp_w/2 and vp_h/2 <= y <= height - vp_h/2 (halves
\* taken exactly), so the viewport rectangle centred there is inside the frame.
C1_ViewportInsideFrame ==
    ViewportFits =>
        \A k \in 1..Positions :
            /\ 2 * viewport_positions[k][1] >= VpWidth
            /\ 2 * viewport_positions[k][1] <= 2 * Width - VpWidth
            /\ 2 * viewport_positions[k][2] >= VpHeight
            /\ 2 * viewport_positions[k][2] <= 2 * Height - VpHeight

\* C2: when viewport_size exceeds the frame on either axis, track_viewport
\* raises an error: it appends no position and does not return normally.
C2_OversizeViewportRaises ==
    (nframes > 0 /\ nmotion = nframes /\ ~ViewportFits) =>
        (Positions = 0 /\ pc # "track_returned")

\* C3: for frames and motion_results of equal length, track_viewport raises
\* nothing, appends the position of frame i in iteration i, and returns
\* exactly len(motion_results) = len(frames) positions (none for no frames).
C3_OutputLength ==
    nmotion = nframes =>
        /\ pc # "track_raised"
        /\ pc = "track_loop" => Positions = i
        /\ pc = "track_returned" => (Positions = nmotion /\ Positions = nframes)

C3_Witness ==
    /\ pc = "track_returned"
    /\ nmotion = nframes
    /\ Positions >= 2

\* C4: for i > 0 the position before the clamp is, per axis, a nearest
\* integer to position[i-1]*(1-alpha) + raw*alpha (alpha in tenths).
C4_SmoothingRounds ==
    Positions >= 2 =>
        \A axis \in {1, 2} :
            Abs(10 * smooth[axis]
                - (viewport_positions[Positions - 1][axis] * (10 - smoothing_factor)
                   + roi[axis] * smoothing_factor)) <= 5

\* C5: in the step-response scenario (ROI at the frame centre A in frame 0,
\* then at B for 50 frames, smoothing 0.3) the distance of the position to B
\* never grows from one frame to the next, and no position lies beyond B.
C5_StepResponseMonotone ==
    (target # None /\ Positions >= 1) =>
        \A axis \in {1, 2} :
            LET A == viewport_positions[1][axis]
                B == target[axis]
            IN  /\ \A k \in 1..(Positions - 1) :
                       Abs(viewport_positions[k + 1][axis] - B)
                           <= Abs(viewport_positions[k][axis] - B)
                /\ \A k \in 1..Positions :
                       /\ A <= B => viewport_positions[k][axis] <= B
                       /\ A >= B => viewport_positions[k][axis] >= B

\* C6: with smoothing_factor 1.0 the position of every frame is the clamped
\* ROI centre of that frame's motion boxes, whatever the earlier frames were.
C6_NoSmoothingAtOne ==
    (smoothing_factor = 10 /\ Positions >= 1) =>
        LastPosition =
            << Max(VpWidth \div 2, Min(Width - (VpWidth \div 2), roi[1])),
               Max(VpHeight \div 2, Min(Height - (VpHeight \div 2), roi[2])) >>

C6_Witness ==
    /\ smoothing_factor = 10
    /\ Positions >= 2
    /\ LastPosition # viewport_positions[Positions - 1]
    /\ LastPosition # <<roi[1], roi[2]>>

\* C7 as claimed: a single box (x, y, w, h) with w, h >= 0 yields
\* (x + w//2, y + h//2, w, h).
C7_SingleBoxAnyArea ==
    (pc = "roi_returned" /\ Len(motion_boxes) = 1) =>
        roi_ret = << motion_boxes[1][1] + (motion_boxes[1][3] \div 2),
                     motion_boxes[1][2] + (motion_boxes[1][4] \div 2),
                     motion_boxes[1][3], motion_boxes[1][4] >>

\* C7 amended: a single box (x, y, w, h) with w, h >= 1 yields
\* (x + w//2, y + h//2, w, h).
C7_SingleBoxPositiveArea ==
    (pc = "roi_returned" /\ Len(motion_boxes) = 1
        /\ motion_boxes[1][3] >= 1 /\ motion_boxes[1][4] >= 1) =>
        roi_ret = << motion_boxes[1][1] + (motion_boxes[1][3] \div 2),
                     motion_boxes[1][2] + (motion_boxes[1][4] \div 2),
                     motion_boxes[1][3], motion_boxes[1][4] >>

C7_Witness ==
    /\ pc = "roi_returned"
    /\ Len(motion_boxes) = 1
    /\ motion_boxes[1][3] >= 2
    /\ motion_boxes[1][4] >= 2
    /\ roi_ret # FrameCenter(frame_shape)

\* c is the quotient n / d truncated toward zero (d > 0)
IsTruncation(c, n, d) ==
    IF n >= 0 THEN c * d <= n /\ n < (c + 1) * d
    ELSE (c - 1) * d < n /\ n <= c * d

\* C8: for boxes of positive total area the returned centre is, per axis, the
\* area-weighted mean of the box centres truncated to an integer, and the
\* returned size is that of the first box of maximum area.
C8_WeightedCentreAndLargest ==
    (pc = "roi_returned" /\ motion_boxes # <<>> /\ TotalWeight(motion_boxes) > 0) =>
        /\ IsTruncation(roi_ret[1], WeightedX(motion_boxes), TotalWeight(motion_boxes))
        /\ IsTruncation(roi_ret[2], WeightedY(motion_boxes), TotalWeight(motion_boxes))
        /\ \E k \in 1..Len(motion_boxes) :
            /\ \A j \in 1..Len(motion_boxes) :
                   motion_boxes[j][3] * motion_boxes[j][4]
                       <= motion_boxes[k][3] * motion_boxes[k][4]
            /\ \A j \in 1..(k - 1) :
                   motion_boxes[j][3] * motion_boxes[j][4]
                       < motion_boxes[k][3] * motion_boxes[k][4]
            /\ roi_ret[3] = motion_boxes[k][3]
            /\ roi_ret[4] = motion_boxes[k][4]

C8_Witness ==
    /\ pc = "roi_returned"
    /\ Len(motion_boxes) = 2
    /\ BoxArea(motion_boxes[1]) = BoxArea(motion_boxes[2])
    /\ BoxArea(motion_boxes[1]) > 0
    /\ motion_boxes[1][3] # motion_boxes[2][3]
    /\ WeightedX(motion_boxes) % TotalWeight(motion_boxes) # 0
    /\ WeightedX(motion_boxes) < 0

\* C9: for an index below 1 or at least len(frames), detect_motion raises
\* nothing, reads no frame and returns the empty list.
C9_OutOfRangeReturnsEmpty ==
    (frame_idx < 1 \/ frame_idx >= nframes) =>
        /\ pc # "detect_raised"
        /\ frames_read = {}
        /\ pc = "detect_returned" => motion_boxes = <<>>

C9_Witness ==
    /\ pc = "detect_returned"
    /\ frame_idx = 0
    /\ nframes >= 2

\* C10: after every iteration the carry (prev_x, prev_y) is the position just
\* appended, which is the clamp of the smoothed value, and for i > 0 the
\* smoothed value was computed from the position returned for frame i-1.
C10_CarryIsClampedPosition ==
    Positions >= 1 =>
        /\ prev = LastPosition
        /\ LastPosition =
            << Max(VpWidth \div 2, Min(Width - (VpWidth \div 2), smooth[1])),
               Max(VpHeight \div 2, Min(Height - (VpHeight \div 2), smooth[2])) >>
        /\ Positions >= 2 =>
            smooth = << SmoothAxis(viewport_positions[Positions - 1][1], roi[1],
                                   smoothing_factor),
                        SmoothAxis(viewport_positions[Positions - 1][2], roi[2],
                                   smoothing_factor) >>

C10_Witness ==
    /\ Positions >= 3
    /\ smooth # LastPosition
    /\ smoothing_factor = 3
    /\ LastPosition # viewport_positions[Positions - 1]

====
